---- MODULE Spec2Model ----
(***************************************************************************)
(* Message-passing convolution layers of GNN_PDE/convdiff/pdegs/models.py  *)
(* (EdgeConvBase, EdgeConvGeom, EdgeConvWithCtx) and the two composite     *)
(* models built from them (MPNNModel, M3Model).                            *)
(*                                                                         *)
(* Tensors are sequences of exact rationals <<num, den>>; <<0, 0>> is the  *)
(* float value nan and <<1, 0>>, <<-1, 0>> are +inf and -inf, so that a     *)
(* division by zero yields what the tensor runtime yields.  Rounding of    *)
(* finite floats is not modelled.                                          *)
(***************************************************************************)
EXTENDS Integers, Sequences, FiniteSets, TLC

\* Bounds of the model.
NumNodes == 2
MaxEdges == 2

Nodes == 0..(NumNodes - 1)
None == <<>>

-----------------------------------------------------------------------------
(* Scalar arithmetic of the tensor runtime. *)

Abs(n) == IF n < 0 THEN -n ELSE n
Sgn(n) == IF n < 0 THEN -1 ELSE IF n > 0 THEN 1 ELSE 0

RECURSIVE GCD(_, _)
GCD(a, b) == IF b = 0 THEN a ELSE GCD(b, a % b)

NaN == <<0, 0>>
R(n) == <<n, 1>>
IsNaN(a) == a[1] = 0 /\ a[2] = 0
IsFinite(a) == a[2] # 0

RNorm(n, d) ==
  IF d = 0 THEN <<Sgn(n), 0>>
  ELSE LET g == GCD(Abs(n), Abs(d))
           s == IF d < 0 THEN -1 ELSE 1
       IN  <<(s * n) \div g, (s * d) \div g>>

RAdd(a, b) ==
  IF IsNaN(a) \/ IsNaN(b) THEN NaN
  ELSE IF ~IsFinite(a) /\ ~IsFinite(b) THEN (IF a[1] = b[1] THEN a ELSE NaN)
  ELSE IF ~IsFinite(a) THEN a
  ELSE IF ~IsFinite(b) THEN b
  ELSE RNorm(a[1] * b[2] + b[1] * a[2], a[2] * b[2])

RNeg(a) == <<-a[1], a[2]>>
RSub(a, b) == RAdd(a, RNeg(b))

RMul(a, b) ==
  IF IsNaN(a) \/ IsNaN(b) THEN NaN
  ELSE IF ~IsFinite(a) \/ ~IsFinite(b)
       THEN (IF a[1] = 0 \/ b[1] = 0 THEN NaN ELSE <<Sgn(a[1]) * Sgn(b[1]), 0>>)
  ELSE RNorm(a[1] * b[1], a[2] * b[2])

RDiv(a, b) ==
  IF IsNaN(a) \/ IsNaN(b) THEN NaN
  ELSE IF ~IsFinite(b) THEN (IF ~IsFinite(a) THEN NaN ELSE R(0))
  ELSE IF b[1] = 0 THEN (IF a[1] = 0 THEN NaN ELSE <<Sgn(a[1]), 0>>)
  ELSE IF ~IsFinite(a) THEN <<a[1] * Sgn(b[1]), 0>>
  ELSE RNorm(a[1] * b[2], a[2] * b[1])

\* The square root of a perfect square (the positions of the model are
\* chosen with integer distances: 3-4-5 and 5-12-13 triangles).
ISqrt(n) == CHOOSE r \in 0..n : r * r = n
RSqrt(a) == <<ISqrt(a[1]), ISqrt(a[2])>>

-----------------------------------------------------------------------------
(* Row vectors. *)

Zeros(w) == [c \in 1..w |-> R(0)]
VSub(u, v) == [c \in 1..Len(u) |-> RSub(u[c], v[c])]
VDivS(u, s) == [c \in 1..Len(u) |-> RDiv(u[c], s)]

RECURSIVE SumSq(_, _)
SumSq(v, k) == IF k = 0 THEN R(0) ELSE RAdd(SumSq(v, k - 1), RMul(v[k], v[k]))

\* v.norm(): the 2-norm of a row.
VNorm(v) == RSqrt(SumSq(v, Len(v)))

\* torch.atan2(y, x) to two decimals, for the directions the model's
\* positions produce (axis-parallel, and slope 4/3).
Atan2(y, x) ==
  LET ay == Abs(y[1])
      ax == Abs(x[1])
      base == IF ay = 0 THEN 0 ELSE IF ax = 0 THEN 157 ELSE 93
      mag == IF x[1] < 0 THEN 314 - base ELSE base
  IN  IF y[1] = 0 /\ x[1] = 0 THEN R(0)
      ELSE RNorm((IF y[1] < 0 THEN -1 ELSE 1) * mag, 100)

-----------------------------------------------------------------------------
(* The injected networks: fixed small affine maps.  Output j of a network  *)
(* is bias*j + sum_k (w0 + k + 2j) * in[k].                                *)

RECURSIVE Dot(_, _, _, _)
Dot(net, j, v, k) ==
  IF k = 0 THEN R(net.bias * j)
  ELSE RAdd(Dot(net, j, v, k - 1), RMul(R(net.w0 + k + 2 * j), v[k]))

ApplyNet(net, v) == [j \in 1..net.width |-> Dot(net, j, v, Len(v))]

\* A network applied to a batch of rows.
ApplyRows(net, rows) == [r \in DOMAIN rows |-> ApplyNet(net, rows[r])]

-----------------------------------------------------------------------------
(* Layers and models: construction. *)

MsgNetL1 == [bias |-> 1, w0 |-> 0, width |-> 2]
AggrNetL1 == [bias |-> 2, w0 |-> 1, width |-> 1]
MsgNetL2 == [bias |-> 0, w0 |-> 1, width |-> 2]
AggrNetL2 == [bias |-> 1, w0 |-> 2, width |-> 1]

Modes == {"position", "distance", "radial", "polar"}

\* Mutant: the last branch of message takes every other mode.
ValidModes_Any == Modes

\* The modes message has a branch for.
ValidModes == {"position", "distance", "radial"}

\* Mutant: flow left at the library's default.
EdgeConvBase_init_DefaultFlow(cls, msg_net, aggr_net, aggr, neighbor_loc, self_val) ==
  [cls |-> cls, msg_net |-> msg_net, aggr_net |-> aggr_net,
   aggr |-> aggr, flow |-> "source_to_target",
   neighbor_loc |-> neighbor_loc, self_val |-> self_val]

\* EdgeConvBase.__init__ (cls is the class being constructed).
EdgeConvBase_init(cls, msg_net, aggr_net, aggr, neighbor_loc, self_val) ==
  [cls |-> cls, msg_net |-> msg_net, aggr_net |-> aggr_net,
   aggr |-> aggr, flow |-> "target_to_source",
   neighbor_loc |-> neighbor_loc, self_val |-> self_val]

\* Mutant: the layer built with the sum reducer.
MPNNModel_init_AggrAdd(msg_net, aggr_net) ==
  [L1 |-> EdgeConvBase_init("EdgeConvBase", msg_net, aggr_net,
                             "add", "position", TRUE)]

MPNNModel_init(msg_net, aggr_net) ==
  [L1 |-> EdgeConvBase_init("EdgeConvBase", msg_net, aggr_net,
                             "mean", "position", TRUE)]

M3Model_init(L1_msg_net, L1_aggr_net, L2_msg_net, L2_aggr_net) ==
  [L1 |-> EdgeConvBase_init("EdgeConvGeom", L1_msg_net, L1_aggr_net,
                             "mean", "position", TRUE),
   L2 |-> EdgeConvBase_init("EdgeConvWithCtx", L2_msg_net, L2_aggr_net,
                             "mean", "position", TRUE)]

-----------------------------------------------------------------------------
(* propagate: gathering the endpoints of the edges, and the reducer. *)

\* The row of edge_index whose nodes are the "_i" endpoints (where the
\* messages are aggregated) and the row of the "_j" endpoints.
RowI(flow) == IF flow = "target_to_source" THEN 1 ELSE 2
RowJ(flow) == IF flow = "target_to_source" THEN 2 ELSE 1

NumEdges(ei) == Len(ei[1])

RECURSIVE ScatterSum(_, _, _, _, _)
ScatterSum(msgs, index, n, c, e) ==
  IF e = 0 THEN R(0)
  ELSE LET rest == ScatterSum(msgs, index, n, c, e - 1)
       IN  IF index[e] = n THEN RAdd(rest, msgs[e][c]) ELSE rest

Count(index, n) == Cardinality({e \in 1..Len(index) : index[e] = n})

\* Mutant: messages written to their node's row, the last one staying.
Reduce_LastWins(aggr, msgs, index, width) ==
  [n \in Nodes |->
     LET S == {e \in 1..Len(index) : index[e] = n}
     IN  IF S = {} THEN Zeros(width)
         ELSE msgs[CHOOSE e \in S : \A o \in S : o <= e]]

\* The reducer of the layer over the messages of each node; rows of nodes
\* without messages are zero-filled.
Reduce(aggr, msgs, index, width) ==
  [n \in Nodes |->
     [c \in 1..width |->
        LET s == ScatterSum(msgs, index, n, c, Len(index))
            k == Count(index, n)
        IN  IF aggr = "mean" THEN RDiv(s, R(IF k < 1 THEN 1 ELSE k)) ELSE s]]

-----------------------------------------------------------------------------
(* message and update of the three layer classes, one edge / node at a time. *)

\* Mutant: the radial branch without the angle.
BaseMessageInput_NoAngle(neighbor_loc, x_i, x_j, pos_i, pos_j) ==
  IF neighbor_loc = "distance"
  THEN x_i \o x_j \o <<VNorm(VSub(pos_j, pos_i))>>
  ELSE IF neighbor_loc = "position"
  THEN x_i \o x_j \o VSub(pos_j, pos_i)
  ELSE x_i \o x_j \o <<VNorm(VSub(pos_j, pos_i))>>

BaseMessageInput(neighbor_loc, x_i, x_j, pos_i, pos_j) ==
  IF neighbor_loc = "distance"
  THEN x_i \o x_j \o <<VNorm(VSub(pos_j, pos_i))>>
  ELSE IF neighbor_loc = "position"
  THEN x_i \o x_j \o VSub(pos_j, pos_i)
  ELSE LET pos_vec == VSub(pos_j, pos_i)
       IN  x_i \o x_j \o <<VNorm(pos_vec), Atan2(pos_vec[2], pos_vec[1])>>

GeomMessageInput(pos_i, pos_j) ==
  LET distances == VNorm(VSub(pos_j, pos_i))
      positions == VDivS(VSub(pos_j, pos_i), distances)
  IN  <<distances>> \o positions

CtxMessageInput(x_i, x_j, pos_i, pos_j, ctx_i) ==
  LET distances == VNorm(VSub(pos_j, pos_i))
      positions == VDivS(VSub(pos_j, pos_i), distances)
  IN  x_i \o VSub(x_j, x_i) \o <<distances>> \o positions \o ctx_i

BaseUpdateInput(self_val, aggr_row, x_row) ==
  IF self_val THEN x_row \o aggr_row ELSE aggr_row

GeomUpdateInput(aggr_row) == aggr_row

\* Mutant: the self value concatenated as in EdgeConvBase.update.
CtxUpdateInput_WithSelf(aggr_row, x_row, pos_row, ctx_row) ==
  x_row \o aggr_row \o ctx_row

CtxUpdateInput(aggr_row, x_row, pos_row, ctx_row) == aggr_row \o ctx_row

\* x.unsqueeze(-1) if x.dim() == 1 else x
Unsqueeze(t) ==
  IF t.dim = 1 THEN [n \in Nodes |-> <<t.data[n]>>] ELSE t.data

-----------------------------------------------------------------------------
(* Inputs of a forward call: every edge list of at most MaxEdges edges     *)
(* (self-loops and repeated edges included); positions in the plane, all   *)
(* distinct, or in space with nodes 1 and 2 at the same place; x as a      *)
(* flat sequence of scalars or as rows of two features.                    *)

Rows(k) == [1..k -> Nodes]
EdgeLists == UNION {{<<r0, r1>> : r0 \in Rows(k), r1 \in Rows(k)} : k \in 0..MaxEdges}

Rect == <<<<R(0), R(0)>>, <<R(3), R(4)>>, <<R(3), R(0)>>, <<R(0), R(4)>>>>
Box == <<<<R(0), R(0), R(0)>>, <<R(3), R(4), R(12)>>>>

Layouts ==
  { [n \in Nodes |-> Rect[(n % 4) + 1]],
    [n \in Nodes |-> Box[(((n + 1) \div 2) % 2) + 1]] }

XInputs ==
  { [dim |-> 1, data |-> [n \in Nodes |-> R(n + 1)]],
    [dim |-> 2, data |-> [n \in Nodes |-> <<R(n % 2), R(2)>>]] }

-----------------------------------------------------------------------------
VARIABLES
  model,       \* the class of the object forward is called on
  layers,      \* its layers (L1, and L2 in M3Model) with their attributes
  x, edge_index, pos,   \* the arguments of the running forward call
  pc,          \* where the call stands
  cur,         \* the layer that is propagating
  lx,          \* x inside the layer's forward (after unsqueeze)
  msg_in,      \* per edge: the input of the message network
  msgs,        \* per edge: the message
  aggr_out,    \* per node: the aggregate
  upd_in,      \* per node: the input of the aggregation network
  res,         \* what the layer's forward returns
  context,     \* the local of M3Model.forward
  out,         \* what the model's forward returned
  err          \* the exception that ended the call

vars == <<model, layers, x, edge_index, pos, pc, cur, lx, msg_in, msgs,
          aggr_out, upd_in, res, context, out, err>>

layer == layers[cur]

Init ==
  /\ \/ /\ model = "MPNNModel"
        /\ layers = MPNNModel_init(MsgNetL2, AggrNetL2)
     \/ /\ model = "M3Model"
        /\ layers = M3Model_init(MsgNetL1, AggrNetL1, MsgNetL2, AggrNetL2)
     \/ /\ model = "EdgeConvBase"
        /\ \E mode \in Modes, sv \in BOOLEAN :
             layers = [L1 |-> EdgeConvBase_init("EdgeConvBase", MsgNetL2, AggrNetL2,
                                                "mean", mode, sv)]
  /\ x = None /\ edge_index = None /\ pos = None
  /\ pc = "ready" /\ cur = "L1"
  /\ lx = None /\ msg_in = None /\ msgs = None /\ aggr_out = None
  /\ upd_in = None /\ res = None /\ context = None
  /\ out = None /\ err = None

ClearLayerLocals ==
  /\ msg_in' = None /\ msgs' = None /\ aggr_out' = None /\ upd_in' = None
  /\ res' = None

\* Mutant: the context outlives the call.
Unwind_KeepContext == ClearLayerLocals /\ lx' = None /\ UNCHANGED context

\* The frame of the call is unwound: by return or by an exception.
Unwind == ClearLayerLocals /\ lx' = None /\ context' = None

\* model.forward(x, edge_index, pos) up to the propagate of its first layer
\* (edge_index holds integers already: .long() changes nothing).
Forward ==
  /\ pc = "ready"
  /\ \E xin \in XInputs, ein \in EdgeLists, pin \in Layouts :
       /\ x' = xin /\ edge_index' = ein /\ pos' = pin
       /\ lx' = IF model = "M3Model" THEN None ELSE Unsqueeze(xin)
  /\ cur' = "L1" /\ pc' = "message"
  /\ ClearLayerLocals /\ context' = None
  /\ out' = None /\ err' = None
  /\ UNCHANGED <<model, layers>>

idx_i == edge_index[RowI(layer.flow)]
idx_j == edge_index[RowJ(layer.flow)]

\* EdgeConvBase.message
MessageBase ==
  /\ pc = "message" /\ layer.cls = "EdgeConvBase"
  /\ IF layer.neighbor_loc \in ValidModes
     THEN /\ msg_in' = [e \in 1..NumEdges(edge_index) |->
                          BaseMessageInput(layer.neighbor_loc,
                            lx[idx_i[e]], lx[idx_j[e]], pos[idx_i[e]], pos[idx_j[e]])]
          /\ msgs' = ApplyRows(layer.msg_net, msg_in')
          /\ pc' = "aggregate"
          /\ UNCHANGED <<lx, aggr_out, upd_in, res, context, err>>
     ELSE /\ err' = "NameError"
          /\ pc' = "raised"
          /\ Unwind
  /\ UNCHANGED <<model, layers, x, edge_index, pos, cur, out>>

\* EdgeConvGeom.message
MessageGeom ==
  /\ pc = "message" /\ layer.cls = "EdgeConvGeom"
  /\ msg_in' = [e \in 1..NumEdges(edge_index) |->
                  GeomMessageInput(pos[idx_i[e]], pos[idx_j[e]])]
  /\ msgs' = ApplyRows(layer.msg_net, msg_in')
  /\ pc' = "aggregate"
  /\ UNCHANGED <<model, layers, x, edge_index, pos, cur, lx, aggr_out, upd_in,
                 res, context, out, err>>

\* Mutant: the context of the neighbour (ctx_j) in the message.
MessageCtx_NeighbourCtx ==
  /\ pc = "message" /\ layer.cls = "EdgeConvWithCtx"
  /\ msg_in' = [e \in 1..NumEdges(edge_index) |->
                  CtxMessageInput(lx[idx_i[e]], lx[idx_j[e]],
                                  pos[idx_i[e]], pos[idx_j[e]], context[idx_j[e]])]
  /\ msgs' = ApplyRows(layer.msg_net, msg_in')
  /\ pc' = "aggregate"
  /\ UNCHANGED <<model, layers, x, edge_index, pos, cur, lx, aggr_out, upd_in,
                 res, context, out, err>>

\* EdgeConvWithCtx.message
MessageCtx ==
  /\ pc = "message" /\ layer.cls = "EdgeConvWithCtx"
  /\ msg_in' = [e \in 1..NumEdges(edge_index) |->
                  CtxMessageInput(lx[idx_i[e]], lx[idx_j[e]],
                                  pos[idx_i[e]], pos[idx_j[e]], context[idx_i[e]])]
  /\ msgs' = ApplyRows(layer.msg_net, msg_in')
  /\ pc' = "aggregate"
  /\ UNCHANGED <<model, layers, x, edge_index, pos, cur, lx, aggr_out, upd_in,
                 res, context, out, err>>

\* The aggregation step of propagate.
Aggregate ==
  /\ pc = "aggregate"
  /\ aggr_out' = Reduce(layer.aggr, msgs, idx_i, layer.msg_net.width)
  /\ pc' = "update"
  /\ UNCHANGED <<model, layers, x, edge_index, pos, cur, lx, msg_in, msgs,
                 upd_in, res, context, out, err>>

UpdateInput(n) ==
  IF layer.cls = "EdgeConvBase"
  THEN BaseUpdateInput(layer.self_val, aggr_out[n], lx[n])
  ELSE IF layer.cls = "EdgeConvGeom"
  THEN GeomUpdateInput(aggr_out[n])
  ELSE CtxUpdateInput(aggr_out[n], lx[n], pos[n], context[n])

\* update of the layer's class; the layer's forward returns its result.
Update ==
  /\ pc = "update"
  /\ upd_in' = [n \in Nodes |-> UpdateInput(n)]
  /\ res' = ApplyRows(layer.aggr_net, upd_in')
  /\ pc' = "layer_done"
  /\ UNCHANGED <<model, layers, x, edge_index, pos, cur, lx, msg_in, msgs,
                 aggr_out, context, out, err>>

\* Mutant: L2 called with pos where the context belongs.
M3CallL2_PosAsContext ==
  /\ pc = "layer_done" /\ model = "M3Model" /\ cur = "L1"
  /\ context' = pos
  /\ cur' = "L2"
  /\ lx' = Unsqueeze(x)
  /\ ClearLayerLocals
  /\ pc' = "message"
  /\ UNCHANGED <<model, layers, x, edge_index, pos, out, err>>

\* M3Model.forward: context = self.L1(...); then self.L2(x, ..., context)
\* up to its propagate.
M3CallL2 ==
  /\ pc = "layer_done" /\ model = "M3Model" /\ cur = "L1"
  /\ context' = res
  /\ cur' = "L2"
  /\ lx' = Unsqueeze(x)
  /\ ClearLayerLocals
  /\ pc' = "message"
  /\ UNCHANGED <<model, layers, x, edge_index, pos, out, err>>

\* The model's forward returns the result of its last layer.
Return ==
  /\ pc = "layer_done" /\ ~(model = "M3Model" /\ cur = "L1")
  /\ out' = res
  /\ Unwind
  /\ pc' = "done"
  /\ UNCHANGED <<model, layers, x, edge_index, pos, cur, err>>

\* The caller has taken what forward returned or raised; nothing of the call
\* is left.
Finish ==
  /\ pc \in {"done", "raised"}
  /\ x' = None /\ edge_index' = None /\ pos' = None
  /\ out' = None /\ err' = None
  /\ cur' = "L1" /\ pc' = "ready"
  /\ UNCHANGED <<model, layers, lx, msg_in, msgs, aggr_out, upd_in, res, context>>

Next ==
  \/ Forward
  \/ MessageBase
  \/ MessageGeom
  \/ MessageCtx
  \/ Aggregate
  \/ Update
  \/ M3CallL2
  \/ Return
  \/ Finish

Spec == Init /\ [][Next]_vars

-----------------------------------------------------------------------------
(* forward of a layer and of a model as functions of their arguments. *)

LayerMessageInput(l, t, ei, p, ctx, e) ==
  LET i == ei[RowI(l.flow)][e]
      j == ei[RowJ(l.flow)][e]
  IN  IF l.cls = "EdgeConvBase"
      THEN BaseMessageInput(l.neighbor_loc, t[i], t[j], p[i], p[j])
      ELSE IF l.cls = "EdgeConvGeom"
      THEN GeomMessageInput(p[i], p[j])
      ELSE CtxMessageInput(t[i], t[j], p[i], p[j], ctx[i])

LayerUpdateInput(l, aggr_row, t, p, ctx, n) ==
  IF l.cls = "EdgeConvBase"
  THEN BaseUpdateInput(l.self_val, aggr_row, t[n])
  ELSE IF l.cls = "EdgeConvGeom"
  THEN GeomUpdateInput(aggr_row)
  ELSE CtxUpdateInput(aggr_row, t[n], p[n], ctx[n])

\* l.forward(t, ei, p[, ctx]) of a layer with a recognised mode.
LayerOut(l, t, ei, p, ctx) ==
  LET m == [e \in 1..NumEdges(ei) |->
              ApplyNet(l.msg_net, LayerMessageInput(l, t, ei, p, ctx, e))]
      a == Reduce(l.aggr, m, ei[RowI(l.flow)], l.msg_net.width)
  IN  [n \in Nodes |->
         ApplyNet(l.aggr_net, LayerUpdateInput(l, a[n], t, p, ctx, n))]

\* M3Model.forward done by hand: the two layers called one after the other.
M3Out(ls, xin, ei, p) ==
  LayerOut(ls.L2, Unsqueeze(xin), ei, p, LayerOut(ls.L1, None, ei, p, None))

-----------------------------------------------------------------------------
(* What the claims speak of. *)

E == NumEdges(edge_index)
First(e) == edge_index[1][e]
Second(e) == edge_index[2][e]
EdgesAt(n) == {e \in 1..E : First(e) = n}
Propagating == pc \in {"message", "aggregate", "update", "layer_done"}
HasMessages == pc \in {"aggregate", "update", "layer_done"}
HasAggregate == pc \in {"update", "layer_done"}

RECURSIVE SumOver(_, _)
SumOver(S, c) ==
  IF S = {} THEN R(0)
  ELSE LET e == CHOOSE m \in S : \A o \in S : m <= o
       IN  RAdd(msgs[e][c], SumOver(S \ {e}, c))

MeanAt(n) ==
  [c \in 1..layer.msg_net.width |->
     IF EdgesAt(n) = {} THEN R(0)
     ELSE RDiv(SumOver(EdgesAt(n), c), R(Cardinality(EdgesAt(n))))]

\* The edge list without the edges whose first-listed index is not n: what
\* is left when every other edge that was added is removed again.
RECURSIVE KeepFirst(_, _, _)
KeepFirst(ei, n, e) ==
  IF e = 0 THEN <<<<>>, <<>>>>
  ELSE LET rest == KeepFirst(ei, n, e - 1)
       IN  IF ei[1][e] = n
           THEN <<Append(rest[1], ei[1][e]), Append(rest[2], ei[2][e])>>
           ELSE rest

\* C1: the message of edge e is built with the first-listed node as the
\* "_i" endpoint and the second-listed node as the "_j" endpoint; it is
\* aggregated into the first-listed node only; and the output row of a node
\* is the one computed from the node's own edges alone (those it is listed
\* first in), so that no other edge, added, removed or altered, changes it.
C1_FlowConvention ==
  /\ HasMessages =>
       \A e \in 1..E :
         LET a == First(e)
             b == Second(e)
         IN  msg_in[e] =
               IF layer.cls = "EdgeConvBase"
               THEN BaseMessageInput(layer.neighbor_loc, lx[a], lx[b], pos[a], pos[b])
               ELSE IF layer.cls = "EdgeConvGeom"
               THEN GeomMessageInput(pos[a], pos[b])
               ELSE CtxMessageInput(lx[a], lx[b], pos[a], pos[b], context[a])
  /\ HasAggregate => \A n \in Nodes : aggr_out[n] = MeanAt(n)
  /\ pc = "layer_done" =>
       \A n \in Nodes :
         LayerOut(layer, lx, KeepFirst(edge_index, n, E), pos, context)[n] = res[n]

\* C1 witness: a layer returned with an edge (a, b), a # b, so that b has
\* an edge pointing at it and none of its own.
C1_Witness ==
  /\ pc = "layer_done" /\ E >= 1
  /\ \E e \in 1..E : First(e) # Second(e) /\ EdgesAt(Second(e)) = {}
                      /\ msgs[e] # Zeros(layer.msg_net.width)

\* C2: in the layers of MPNNModel and M3Model the aggregate of a node with
\* k >= 1 edges is the sum of their messages divided by k, elementwise, and
\* that of a node without edges is zero-filled.
C2_MeanReducer ==
  (model \in {"MPNNModel", "M3Model"} /\ HasAggregate) =>
     \A n \in Nodes :
       LET S == EdgesAt(n)
           k == Cardinality(S)
       IN  /\ \A e \in S : DOMAIN aggr_out[n] = DOMAIN msgs[e]
           /\ k >= 1 => \A c \in DOMAIN aggr_out[n] :
                          aggr_out[n][c] = RDiv(SumOver(S, c), R(k))
           /\ k = 0 => aggr_out[n] = Zeros(layer.msg_net.width)

\* C2 witness: a node with two edges whose messages differ, and a node
\* with none.
C2_Witness ==
  /\ model \in {"MPNNModel", "M3Model"} /\ HasAggregate
  /\ \E n \in Nodes : \E e1, e2 \in EdgesAt(n) :
       msgs[e1] # msgs[e2] /\ \A c \in 1..2 : IsFinite(msgs[e1][c]) /\ IsFinite(msgs[e2][c])
  /\ \E n \in Nodes : EdgesAt(n) = {}

\* The edge list with columns p and q exchanged.  Exchanges of two columns
\* generate every permutation, and every edge list is an input of some
\* call, so a result that no exchange changes is one no permutation changes.
Swapped(ei, p, q) ==
  <<[ei[1] EXCEPT ![p] = ei[1][q], ![q] = ei[1][p]],
    [ei[2] EXCEPT ![p] = ei[2][q], ![q] = ei[2][p]]>>

\* C3: EdgeConvBase.forward returns one row per node, in node order, and the
\* same rows when the columns of the edge list are permuted.
C3_EdgeOrderInvariance ==
  (pc = "layer_done" /\ layer.cls = "EdgeConvBase") =>
     /\ DOMAIN res = Nodes
     /\ \A p, q \in 1..E :
          p < q => LayerOut(layer, lx, Swapped(edge_index, p, q), pos, context) = res

\* C3 witness: a node's two edges carry different messages, so the order
\* in which they are reduced could matter.
C3_Witness ==
  /\ pc = "layer_done" /\ layer.cls = "EdgeConvBase"
  /\ \E n \in Nodes : \E e1, e2 \in EdgesAt(n) : e1 < e2 /\ msgs[e1] # msgs[e2]

F == Len(lx[0])
D == Len(pos[0])
H == layer.msg_net.width

\* C4 as stated: the message network's input has width 2F+1, 2F+2, 2F+3 in
\* the modes "distance", "position", "radial", and the aggregation
\* network's input is one element wider with the self value than without.
C4_WidthsAsStated ==
  (layer.cls = "EdgeConvBase" /\ pc = "layer_done") =>
     /\ \A e \in 1..E :
          Len(msg_in[e]) = 2 * F + (IF layer.neighbor_loc = "distance" THEN 1
                                    ELSE IF layer.neighbor_loc = "position" THEN 2
                                    ELSE 3)
     /\ \A n \in Nodes :
          Len(upd_in[n]) = H + (IF layer.self_val THEN 1 ELSE 0)

\* C4, amended: the message network's input has width 2F+1 in mode
\* "distance", 2F+D in mode "position" (D the width of a position: 2F+2 in
\* the plane) and 2F+2 in mode "radial"; the aggregation network's input is
\* F elements wider with the self value than without.
C4_Widths ==
  (layer.cls = "EdgeConvBase" /\ pc = "layer_done") =>
     /\ \A e \in 1..E :
          Len(msg_in[e]) = 2 * F + (IF layer.neighbor_loc = "distance" THEN 1
                                    ELSE IF layer.neighbor_loc = "position" THEN D
                                    ELSE 2)
     /\ \A n \in Nodes :
          Len(upd_in[n]) = H + (IF layer.self_val THEN F ELSE 0)

\* C4 witness: mode "radial" with two features per node, positions in space
\* and the self value.
C4_Witness ==
  /\ layer.cls = "EdgeConvBase" /\ pc = "layer_done" /\ E >= 1
  /\ layer.neighbor_loc = "radial" /\ layer.self_val /\ F = 2 /\ D = 3

Unrecognised ==
  layer.cls = "EdgeConvBase"
  /\ layer.neighbor_loc \notin {"position", "distance", "radial"}

\* C5: a layer with an unrecognised mode is constructed; each forward call
\* on it raises NameError at the message step, with no network applied and
\* nothing returned.
C5_InvalidMode ==
  /\ [](Unrecognised =>
          /\ pc \in {"ready", "message", "raised"}
          /\ msg_in = None /\ msgs = None /\ aggr_out = None
          /\ upd_in = None /\ res = None /\ out = None
          /\ pc = "raised" => err = "NameError")
  /\ [][(Unrecognised /\ pc = "message") => (pc' = "raised" /\ err' = "NameError")]_vars

\* C5 witness: the call on such a layer, with edges, has raised.
C5_Witness == Unrecognised /\ pc = "raised" /\ err = "NameError" /\ E >= 1

ZeroDistanceEdge == \E e \in 1..E : pos[First(e)] = pos[Second(e)]

\* C6 as stated: EdgeConvGeom.forward fails, and returns no context, when
\* an edge joins two nodes at the same position.
C6_ZeroDistanceFails ==
  (model = "M3Model" /\ Propagating /\ ZeroDistanceEdge) =>
     (cur = "L1" /\ pc = "message" /\ context = None)

\* C7: M3Model.forward returns what L2.forward returns on the context
\* L1.forward computes from the same edge list and positions; while L2
\* runs, the context is that one, with a row for every node.
C7_M3Composition ==
  model = "M3Model" =>
    /\ (cur = "L2" /\ Propagating) =>
         /\ DOMAIN context = Nodes
         /\ context = LayerOut(layers.L1, None, edge_index, pos, None)
    /\ pc = "done" =>
         out = LayerOut(layers.L2, Unsqueeze(x), edge_index, pos,
                        LayerOut(layers.L1, None, edge_index, pos, None))

\* C7 witness: M3Model returned rows that are numbers, computed from
\* contexts that differ from node to node.
C7_Witness ==
  /\ model = "M3Model" /\ pc = "done" /\ E >= 1
  /\ \A n \in Nodes : IsFinite(out[n][1])
  /\ \E n, m \in Nodes : out[n] # out[m]

\* forward of the model as a function of the arguments of the call.
ModelOut(xin, ei, p) ==
  IF model = "M3Model" THEN M3Out(layers, xin, ei, p)
  ELSE LayerOut(layers.L1, Unsqueeze(xin), ei, p, None)

\* C8: no step of a forward call changes an attribute of the model or of
\* its layers; when no call is running nothing of a call is kept, the
\* context least of all; what a call returns is a function of its own
\* arguments, whatever calls came before.
C8_Stateless ==
  /\ [][model' = model /\ layers' = layers]_vars
  /\ [](pc \in {"ready", "done", "raised"} =>
          /\ lx = None /\ msg_in = None /\ msgs = None /\ aggr_out = None
          /\ upd_in = None /\ res = None /\ context = None)
  /\ [](pc = "done" => out = ModelOut(x, edge_index, pos))
  /\ []((model = "M3Model" /\ cur = "L2" /\ Propagating) =>
          context = LayerOut(layers.L1, None, edge_index, pos, None))

\* C8 witness: M3Model has returned its rows; the context it computed on
\* the way is gone.
C8_Witness ==
  /\ model = "M3Model" /\ pc = "done" /\ E >= 1
  /\ out # None /\ context = None

Dist(a, b) == VNorm(VSub(pos[b], pos[a]))

\* C9: in EdgeConvWithCtx the message network's input for an edge (a, b) is
\* [x_a, x_b - x_a, |pos_b - pos_a|, (pos_b - pos_a)/|pos_b - pos_a|, ctx_a],
\* and the aggregation network's input for node n is [aggregate_n, ctx_n],
\* without x_n and pos_n.
C9_CtxIndexing ==
  (layer.cls = "EdgeConvWithCtx" /\ HasMessages) =>
     /\ \A e \in 1..E :
          LET a == First(e)
              b == Second(e)
          IN  msg_in[e] = lx[a] \o VSub(lx[b], lx[a]) \o <<Dist(a, b)>>
                          \o [c \in 1..D |-> RDiv(RSub(pos[b][c], pos[a][c]), Dist(a, b))]
                          \o context[a]
     /\ pc = "layer_done" =>
          \A n \in Nodes : upd_in[n] = aggr_out[n] \o context[n]

\* C9 witness: an edge between two nodes whose contexts differ.
C9_Witness ==
  /\ layer.cls = "EdgeConvWithCtx" /\ pc = "layer_done"
  /\ \E e \in 1..E : /\ context[First(e)] # context[Second(e)]
                      /\ IsFinite(context[First(e)][1])
                      /\ IsFinite(context[Second(e)][1])

Isolated(n) == EdgesAt(n) = {}

\* x and pos with the row of node n replaced.
XWith(n, row) ==
  [dim |-> 2, data |-> [m \in Nodes |-> IF m = n THEN row ELSE Unsqueeze(x)[m]]]
PosWith(n, row) == [m \in Nodes |-> IF m = n THEN row ELSE pos[m]]
OtherX(n) == {[c \in 1..Len(Unsqueeze(x)[n]) |->
                 IF c = 1 THEN RAdd(Unsqueeze(x)[n][c], R(d)) ELSE Unsqueeze(x)[n][c]] :
              d \in {1, 2}}
OtherPos(n) == {r \in {Rect[k] : k \in 1..Len(Rect)} \cup {Box[k] : k \in 1..Len(Box)} :
                  Len(r) = Len(pos[n]) /\ r # pos[n]}

\* C10: in M3Model the output row of a node that is listed first in no edge
\* is L2_aggr_net([0, L1_aggr_net(0)]), the same with any other x_n or
\* pos_n; in MPNNModel it is aggr_net([x_n, 0]) and changes with x_n.
C10_IsolatedNodes ==
  pc = "done" =>
    \A n \in Nodes : Isolated(n) =>
      /\ model = "M3Model" =>
           /\ out[n] = ApplyNet(layers.L2.aggr_net,
                         Zeros(layers.L2.msg_net.width)
                         \o ApplyNet(layers.L1.aggr_net, Zeros(layers.L1.msg_net.width)))
           /\ \A r \in OtherX(n) : ModelOut(XWith(n, r), edge_index, pos)[n] = out[n]
           /\ \A r \in OtherPos(n) : ModelOut(x, edge_index, PosWith(n, r))[n] = out[n]
      /\ model = "MPNNModel" =>
           /\ out[n] = ApplyNet(layers.L1.aggr_net,
                         Unsqueeze(x)[n] \o Zeros(layers.L1.msg_net.width))
           /\ \A r \in OtherX(n) : ModelOut(XWith(n, r), edge_index, pos)[n] # out[n]

\* C10 witness: M3Model returned for a graph in which a node with no edge
\* of its own is the neighbour of another node.
C10_Witness ==
  /\ model = "M3Model" /\ pc = "done"
  /\ \E e \in 1..E : First(e) # Second(e) /\ Isolated(Second(e))

====
